---- MODULE Spec2Model ----
(***************************************************************************)
(* A model of scripts/update-config-logos.py: a one-shot script that loads *)
(* src/config.json, lists src/assets/logos, rewrites each chapter's        *)
(* logoUrl to a local path when the expected file is present, and writes   *)
(* the document back.                                                      *)
(*                                                                         *)
(* A string is a sequence of characters; a character is a one-character    *)
(* string, except that a character outside printable ASCII is written by   *)
(* its code point ("U+0130") and the line feed as "LF".                    *)
(***************************************************************************)
EXTENDS Integers, Sequences, FiniteSets, TLC

VARIABLES
    disk,             \* src/config.json on disk
    dirExists,        \* whether src/assets/logos exists
    dirEntries,       \* os.listdir(LOGOS_DIR) when it exists
    pc,               \* position of the script
    error,            \* the unhandled exception that ended the run, or "none"
    config,           \* the loaded document
    downloaded_logos, \* the inventory
    updated_count, skipped_count, missing_count,
    idx,              \* number of chapters the loop has gone through
    reads, writes,    \* successful reads / opens for writing of CONFIG_FILE in this run
    run,              \* which run of the script this is
    runStart,         \* the content of CONFIG_FILE when this run started
    title, base, sanDone,   \* sanitize_filename called on its own
    url, ext, extDone       \* get_extension_from_url called on its own

vars == <<disk, dirExists, dirEntries, pc, error, config, downloaded_logos,
          updated_count, skipped_count, missing_count, idx, reads, writes,
          run, runStart, title, base, sanDone, url, ext, extDone>>

runVars == <<disk, dirExists, dirEntries, pc, error, config, downloaded_logos,
             updated_count, skipped_count, missing_count, idx, reads, writes,
             run, runStart>>
sanVars == <<title, base, sanDone>>
extVars == <<url, ext, extDone>>

(***************************************************************************)
(* Bounds of the model.                                                    *)
(***************************************************************************)
MaxPrefix == 1      \* characters of a title before its padding
MaxSuffix == 2      \* characters of a title after its padding
MaxPad == 50        \* longest padding of a title
MaxChapters == 2    \* chapters of a document
MaxRuns == 2        \* runs of the script in succession

(***************************************************************************)
(* Characters and the string primitives of Python the script uses.         *)
(***************************************************************************)
UpperLetters == <<"A","B","C","D","E","F","G","H","I","J","K","L","M",
                  "N","O","P","Q","R","S","T","U","V","W","X","Y","Z">>
LowerLetters == <<"a","b","c","d","e","f","g","h","i","j","k","l","m",
                  "n","o","p","q","r","s","t","u","v","w","x","y","z">>
Digits == {"0","1","2","3","4","5","6","7","8","9"}

Range(s) == {s[i] : i \in 1..Len(s)}

RECURSIVE Concat(_)
Concat(ss) == IF ss = <<>> THEN <<>> ELSE Head(ss) \o Concat(Tail(ss))

Min(a, b) == IF a < b THEN a ELSE b

\* str.lower() on one character: full Unicode lowercasing, so U+0130
\* (capital I with dot above) becomes "i" followed by U+0307, and U+212A
\* (the Kelvin sign) becomes "k".
LowerChar(c) ==
    IF \E i \in 1..26 : UpperLetters[i] = c
    THEN <<LowerLetters[CHOOSE i \in 1..26 : UpperLetters[i] = c]>>
    ELSE IF c = "U+0130" THEN <<"i", "U+0307">>
    ELSE IF c = "U+212A" THEN <<"k">>
    ELSE <<c>>

StrLower(s) == Concat([i \in 1..Len(s) |-> LowerChar(s[i])])

\* the class [a-z0-9] of the pattern on line 19 (no IGNORECASE there)
IsAlnum(c) == c \in Range(LowerLetters) \cup Digits

\* re.sub(r'[^a-z0-9]+', '-', filename): every maximal run of characters
\* outside [a-z0-9] becomes one hyphen
SubNonAlnumRuns(s) ==
    Concat([i \in 1..Len(s) |->
              IF IsAlnum(s[i]) THEN <<s[i]>>
              ELSE IF i > 1 /\ ~IsAlnum(s[i-1]) THEN <<>>
              ELSE <<"-">>])

\* re.sub(r'-+', '-', filename): every maximal run of hyphens becomes one
CollapseHyphens(s) ==
    Concat([i \in 1..Len(s) |->
              IF s[i] # "-" THEN <<s[i]>>
              ELSE IF i > 1 /\ s[i-1] = "-" THEN <<>>
              ELSE <<"-">>])

\* s.strip('-')
StripHyphens(s) ==
    LET keep == {i \in 1..Len(s) : s[i] # "-"}
    IN  IF keep = {} THEN <<>>
        ELSE SubSeq(s, CHOOSE i \in keep : \A j \in keep : i <= j,
                       CHOOSE i \in keep : \A j \in keep : i >= j)

MaxFilenameLen == 50

TruncateOffByOne(s) == SubSeq(s, 1, Min(Len(s), MaxFilenameLen + 1))

\* filename[:50]
Truncate(s) == SubSeq(s, 1, Min(Len(s), MaxFilenameLen))

sanitize_filename(t) ==
    LET lowered   == StrLower(t)
        replaced  == SubNonAlnumRuns(lowered)
        collapsed == CollapseHyphens(replaced)
        stripped  == StripHyphens(collapsed)
    IN  Truncate(stripped)

(***************************************************************************)
(* JSON values of a chapter's fields: a string, null, or no such key.      *)
(***************************************************************************)
Str(s) == [kind |-> "str", val |-> s]
Null == [kind |-> "null", val |-> <<>>]
Absent == [kind |-> "absent", val |-> <<>>]

\* dict.get(key, ''): the default stands in for a key that is not there
GetOrEmpty(v) == IF v.kind = "absent" THEN Str(<<>>) ELSE v

\* `not v` for a string or None
Falsy(v) == v.kind # "str" \/ v.val = <<>>

(***************************************************************************)
(* get_extension_from_url                                                  *)
(***************************************************************************)
\* the alternation (jpg|jpeg|png|svg|gif|webp), in its order
ExtensionTokens == << <<"j","p","g">>, <<"j","p","e","g">>, <<"p","n","g">>,
                      <<"s","v","g">>, <<"g","i","f">>, <<"w","e","b","p">> >>

DefaultExtension == <<".", "p", "n", "g">>

UpperOf(c) ==
    IF \E i \in 1..26 : LowerLetters[i] = c
    THEN UpperLetters[CHOOSE i \in 1..26 : LowerLetters[i] = c]
    ELSE c

\* The characters a literal of the pattern matches under re.IGNORECASE on a
\* str pattern: both cases, and the non-ASCII characters whose case mapping
\* meets the literal (U+017F for s; U+0130 and U+0131 for i; U+212A for k).
IgnoreCaseVariants(p) ==
    {p, UpperOf(p)}
      \cup (IF p = "s" THEN {"U+017F"} ELSE {})
      \cup (IF p = "i" THEN {"U+0130", "U+0131"} ELSE {})
      \cup (IF p = "k" THEN {"U+212A"} ELSE {})

\* (\?|$) at position j: a "?", or the end of the string, where $ also
\* matches just before a line feed that ends the string.
TailMatches(u, j) ==
    \/ j <= Len(u) /\ u[j] = "?"
    \/ j = Len(u) + 1
    \/ j = Len(u) /\ u[j] = "LF"

\* the whole pattern matches with its dot at position i and token tok
TokenMatchesAt(u, i, tok) ==
    /\ u[i] = "."
    /\ i + Len(tok) <= Len(u)
    /\ \A k \in 1..Len(tok) : u[i + k] \in IgnoreCaseVariants(tok[k])
    /\ TailMatches(u, i + Len(tok) + 1)

MatchPositions(u) ==
    {i \in 1..Len(u) : \E t \in 1..Len(ExtensionTokens) :
                          TokenMatchesAt(u, i, ExtensionTokens[t])}

\* match.group(1) of re.search: the leftmost position, and there the first
\* alternative that lets the whole pattern match
SearchGroup(u) ==
    LET i == CHOOSE p \in MatchPositions(u) : \A q \in MatchPositions(u) : p <= q
        t == CHOOSE a \in 1..Len(ExtensionTokens) :
                 /\ TokenMatchesAt(u, i, ExtensionTokens[a])
                 /\ \A b \in 1..(a - 1) : ~TokenMatchesAt(u, i, ExtensionTokens[b])
    IN  SubSeq(u, i + 1, i + Len(ExtensionTokens[t]))

get_extension_from_url(v) ==
    IF Falsy(v) THEN DefaultExtension
    ELSE IF MatchPositions(v.val) # {}
         THEN <<".">> \o StrLower(SearchGroup(v.val))
         ELSE DefaultExtension

(***************************************************************************)
(* The two functions called on their own, on bounded sets of arguments.    *)
(***************************************************************************)
Strs(alphabet, n) == UNION {[1..k -> alphabet] : k \in 0..n}

TitleAlphabet == {"a", "B", "1", " ", "-", "U+0130"}

\* pad lengths next to 0 and next to the limit of line 22
PadLens == {n \in 0..MaxPad : n < 2 \/ n > MaxFilenameLen - 4}

TitleInputs ==
    {p \o [i \in 1..n |-> "a"] \o s :
        p \in Strs(TitleAlphabet, MaxPrefix), n \in PadLens,
        s \in Strs(TitleAlphabet, MaxSuffix)}

UrlSpellings == {
    <<>>,
    <<".","j","p","g">>,
    <<".","J","P","G">>,
    <<".","j","p","e","g">>,
    <<".","p","n","g">>,
    <<".","s","v","g">>,
    <<".","g","i","f">>,
    <<".","w","e","b","p">>,
    <<".","U+017F","v","g">>,
    <<".","g","U+0130","f">>,
    <<".","g","U+0131","f">>,
    <<".","j","p">>,
    <<".","J","p","e","g">> }
UrlHeads == {<<>>, <<"x">>}
UrlSeparators == {<<>>, <<"?">>, <<"x">>, <<"LF">>, <<"?","f","=">>}
UrlTails == {<<>>, <<"?">>, <<"x">>, <<"LF">>, <<"LF","LF">>, <<"?","v","=","2">>}

UrlInputs ==
    {Null} \cup
    {Str(h \o a \o m \o b \o t) :
        h \in UrlHeads, a \in UrlSpellings, m \in UrlSeparators,
        b \in UrlSpellings, t \in UrlTails}

(***************************************************************************)
(* The script: documents, directory listings and the chapters they hold.   *)
(***************************************************************************)
\* CONFIG_FILE as the script finds it: not there, not JSON (which is also
\* what a write that failed part-way leaves), or a document.
Doc(hasChapters, chapters) ==
    [kind |-> "ok", hasChapters |-> hasChapters, chapters |-> chapters,
     rest |-> "other keys"]
MissingFile == [kind |-> "missing", hasChapters |-> FALSE, chapters |-> <<>>, rest |-> "none"]
MalformedFile == [kind |-> "malformed", hasChapters |-> FALSE, chapters |-> <<>>, rest |-> "none"]
NotLoaded == [kind |-> "unset", hasChapters |-> FALSE, chapters |-> <<>>, rest |-> "none"]

Chapter(id, t, u) == [id |-> id, title |-> t, logoUrl |-> u, extra |-> "other fields"]

TitleFooBar == <<"F","o","o"," ","B","a","r">>
TitleChapterOne == <<"C","h","a","p","t","e","r"," ","O","n","e",":"," ","I","n","t","r","o","!">>
TitleSymbols == <<"?","?">>
TitleG == <<"G">>

UrlSvgQuery == <<"h","t","t","p","s",":","/","/","c","d","n",".","x","/","i","m","g",".","s","v","g","?","v","=","2">>
UrlUpperPng == <<"h","t","t","p","s",":","/","/","x",".","c","o","m","/","a",".","P","N","G">>
UrlPlainPng == <<"x",".","p","n","g">>
UrlDottedI == <<"x",".","g","U+0130","f">>
UrlJpg == <<"a",".","j","p","g">>
UrlLocalSvg == <<"a","s","s","e","t","s","/","l","o","g","o","s","/","f","o","o","-","b","a","r",".","s","v","g">>

ChapterInputs == {
    Chapter(1, Str(TitleFooBar), Str(UrlSvgQuery)),
    Chapter(2, Str(TitleChapterOne), Str(UrlUpperPng)),
    Chapter(3, Str(TitleSymbols), Str(<<>>)),
    Chapter(4, Absent, Str(UrlPlainPng)),
    Chapter(5, Str(TitleG), Str(UrlDottedI)),
    Chapter(6, Null, Str(UrlJpg)),
    Chapter(7, Str(TitleFooBar), Absent),
    Chapter(8, Str(TitleFooBar), Str(UrlLocalSvg)),
    Chapter(9, Str(TitleSymbols), Str(UrlPlainPng)) }

DocInputs ==
    {MissingFile, MalformedFile, Doc(FALSE, <<>>)}
      \cup {Doc(TRUE, cs) : cs \in Strs(ChapterInputs, MaxChapters)}

FileFooBarSvg == <<"f","o","o","-","b","a","r",".","s","v","g">>
FileChapterOnePng == <<"c","h","a","p","t","e","r","-","o","n","e","-","i","n","t","r","o",".","p","n","g">>
FileDotPng == <<".","p","n","g">>
FileHiddenPng == <<".","h","i","d","d","e","n",".","p","n","g">>
FileGGif == <<"g",".","g","i","U+0307","f">>
FileGPng == <<"g",".","p","n","g">>

DirListings == {
    {},
    {FileFooBarSvg, FileDotPng, FileHiddenPng},
    {FileChapterOnePng, FileGGif, FileGPng},
    {FileGGif},
    {FileDotPng},
    {FileFooBarSvg, FileChapterOnePng, FileDotPng, FileHiddenPng, FileGGif, FileGPng} }

InitRunIdle ==
    /\ disk = MissingFile /\ dirExists = FALSE /\ dirEntries = {}
    /\ pc = "idle" /\ error = "none" /\ config = NotLoaded
    /\ downloaded_logos = {}
    /\ updated_count = 0 /\ skipped_count = 0 /\ missing_count = 0
    /\ idx = 0 /\ reads = 0 /\ writes = 0 /\ run = 1
    /\ runStart = MissingFile

InitSanIdle == title = <<>> /\ base = <<>> /\ sanDone = FALSE
InitExtIdle == url = Null /\ ext = <<>> /\ extDone = FALSE

InitSanitize ==
    /\ title \in TitleInputs /\ base = <<>> /\ sanDone = FALSE
    /\ InitRunIdle /\ InitExtIdle

CallSanitize ==
    /\ ~sanDone
    /\ base' = sanitize_filename(title)
    /\ sanDone' = TRUE
    /\ UNCHANGED <<title, runVars, extVars>>

SpecSanitize == InitSanitize /\ [][CallSanitize]_vars

InitExtension ==
    /\ url \in UrlInputs /\ ext = <<>> /\ extDone = FALSE
    /\ InitRunIdle /\ InitSanIdle

CallExtension ==
    /\ ~extDone
    /\ ext' = get_extension_from_url(url)
    /\ extDone' = TRUE
    /\ UNCHANGED <<url, runVars, sanVars>>

SpecExtension == InitExtension /\ [][CallExtension]_vars

(***************************************************************************)
(* The steps of the script.                                                *)
(***************************************************************************)
StartsWithDot(f) == Len(f) > 0 /\ f[1] = "."

ListLogosWithHidden(exists, entries) == IF exists THEN entries ELSE {}

\* lines 43-48: the inventory
ListLogos(exists, entries) ==
    IF exists THEN {f \in entries : ~StartsWithDot(f)} ELSE {}

expected_filename(t, u) == sanitize_filename(t) \o get_extension_from_url(u)

AssetsLogosPrefix == <<"a","s","s","e","t","s","/","l","o","g","o","s","/">>
LogosDirPrefix == <<"s","r","c","/","a","s","s","e","t","s","/","l","o","g","o","s","/">>

LocalPathUnderLogosDir(f) == LogosDirPrefix \o f

local_path(f) == AssetsLogosPrefix \o f

InInventoryUnchecked(f, logos) == f # <<>>

InInventory(f, logos) == f \in logos

\* what the loop body does with a chapter
Outcome(chapter, logos) ==
    LET t == GetOrEmpty(chapter.title)
        original_url == GetOrEmpty(chapter.logoUrl)
    IN  IF Falsy(original_url) THEN "skipped"
        ELSE IF t.kind # "str" THEN "AttributeError"
        ELSE IF InInventory(expected_filename(t.val, original_url), logos)
             THEN "updated"
             ELSE "missing"

RewriteTitle(chapter, path) == [chapter EXCEPT !.title = Str(path)]

\* chapter['logoUrl'] = local_path
RewriteChapter(chapter, path) == [chapter EXCEPT !.logoUrl = Str(path)]

BumpUnlessSkipped(counter, outcome, which) ==
    IF outcome = which /\ which # "skipped" THEN counter + 1 ELSE counter

\* the += 1 of the branch taken
Bump(counter, outcome, which) ==
    IF outcome = which THEN counter + 1 ELSE counter

LoopBreaksEarly(i, chapters) == i >= 1 \/ i = Len(chapters)

\* the for loop has gone through every chapter
LoopFinished(i, chapters) == i = Len(chapters)

Init ==
    /\ disk \in DocInputs
    /\ \E listing \in DirListings :
          \/ dirExists = TRUE /\ dirEntries = listing
          \/ dirExists = FALSE /\ dirEntries = {} /\ listing = {}
    /\ pc = "load" /\ error = "none" /\ config = NotLoaded
    /\ downloaded_logos = {}
    /\ updated_count = 0 /\ skipped_count = 0 /\ missing_count = 0
    /\ idx = 0 /\ reads = 0 /\ writes = 0 /\ run = 1
    /\ runStart = disk
    /\ InitSanIdle /\ InitExtIdle

Abort(e) == pc' = "aborted" /\ error' = e

\* lines 39-40, the file is there and is JSON
LoadConfig ==
    /\ pc = "load" /\ disk.kind = "ok"
    /\ config' = disk
    /\ reads' = reads + 1
    /\ pc' = "inventory"
    /\ UNCHANGED <<disk, dirExists, dirEntries, error, downloaded_logos,
                   updated_count, skipped_count, missing_count, idx, writes,
                   run, runStart, sanVars, extVars>>

\* lines 39-40, open() or json.load() raises
LoadFails ==
    /\ pc = "load" /\ disk.kind # "ok"
    /\ IF disk.kind = "missing"
       THEN Abort("FileNotFoundError") /\ reads' = reads
       ELSE Abort("JSONDecodeError") /\ reads' = reads + 1
    /\ UNCHANGED <<disk, dirExists, dirEntries, config, downloaded_logos,
                   updated_count, skipped_count, missing_count, idx, writes,
                   run, runStart, sanVars, extVars>>

\* lines 43-55
BuildInventory ==
    /\ pc = "inventory"
    /\ downloaded_logos' = ListLogos(dirExists, dirEntries)
    /\ updated_count' = 0 /\ skipped_count' = 0 /\ missing_count' = 0
    /\ pc' = "loop"
    /\ UNCHANGED <<disk, dirExists, dirEntries, error, config, idx, reads,
                   writes, run, runStart, sanVars, extVars>>

\* line 59, config['chapters'] on a document without that key
NoChaptersKey ==
    /\ pc = "loop" /\ ~config.hasChapters
    /\ Abort("KeyError")
    /\ UNCHANGED <<disk, dirExists, dirEntries, config, downloaded_logos,
                   updated_count, skipped_count, missing_count, idx, reads,
                   writes, run, runStart, sanVars, extVars>>

\* lines 59-87, one iteration
ProcessChapter ==
    /\ pc = "loop" /\ config.hasChapters
    /\ ~LoopFinished(idx, config.chapters)
    /\ LET chapter == config.chapters[idx + 1]
           outcome == Outcome(chapter, downloaded_logos)
           path == local_path(expected_filename(GetOrEmpty(chapter.title).val,
                                                GetOrEmpty(chapter.logoUrl)))
       IN  IF outcome = "AttributeError"
           THEN /\ Abort("AttributeError")
                /\ UNCHANGED <<config, idx, updated_count, skipped_count,
                               missing_count>>
           ELSE /\ config' = IF outcome = "updated"
                             THEN [config EXCEPT !.chapters[idx + 1] =
                                       RewriteChapter(chapter, path)]
                             ELSE config
                /\ updated_count' = Bump(updated_count, outcome, "updated")
                /\ skipped_count' = Bump(skipped_count, outcome, "skipped")
                /\ missing_count' = Bump(missing_count, outcome, "missing")
                /\ idx' = idx + 1
                /\ UNCHANGED <<pc, error>>
    /\ UNCHANGED <<disk, dirExists, dirEntries, downloaded_logos, reads,
                   writes, run, runStart, sanVars, extVars>>

\* lines 90-101
SaveConfig ==
    /\ pc = "loop" /\ config.hasChapters
    /\ LoopFinished(idx, config.chapters)
    /\ disk' = config
    /\ writes' = writes + 1
    /\ pc' = "done"
    /\ UNCHANGED <<dirExists, dirEntries, error, config, downloaded_logos,
                   updated_count, skipped_count, missing_count, idx, reads,
                   run, runStart, sanVars, extVars>>

\* lines 91-92, open() or the write raises: the file is as it was, or it
\* was truncated and holds part of the output
SaveFails ==
    /\ pc = "loop" /\ config.hasChapters
    /\ LoopFinished(idx, config.chapters)
    /\ disk' \in {disk, MalformedFile}
    /\ writes' = writes + 1
    /\ Abort("OSError")
    /\ UNCHANGED <<dirExists, dirEntries, config, downloaded_logos,
                   updated_count, skipped_count, missing_count, idx, reads,
                   run, runStart, sanVars, extVars>>

\* the script is started again on what the last run wrote, with the logos
\* directory as it was
RunAgain ==
    /\ pc = "done" /\ run < MaxRuns
    /\ run' = run + 1
    /\ runStart' = disk
    /\ pc' = "load" /\ error' = "none" /\ config' = NotLoaded
    /\ downloaded_logos' = {}
    /\ updated_count' = 0 /\ skipped_count' = 0 /\ missing_count' = 0
    /\ idx' = 0 /\ reads' = 0 /\ writes' = 0
    /\ UNCHANGED <<disk, dirExists, dirEntries, sanVars, extVars>>

Next ==
    \/ LoadConfig \/ LoadFails \/ BuildInventory \/ NoChaptersKey
    \/ ProcessChapter \/ SaveConfig \/ SaveFails \/ RunAgain

Spec == Init /\ [][Next]_vars

(***************************************************************************)
(* The claims.                                                             *)
(***************************************************************************)
\* what the claims call the expected filename of a chapter, and the
\* chapters the claims single out
OriginalUrl(chapter) == GetOrEmpty(chapter.logoUrl)
HasLogoUrl(chapter) == ~Falsy(OriginalUrl(chapter))
ExpectedOf(chapter) ==
    sanitize_filename(GetOrEmpty(chapter.title).val)
      \o get_extension_from_url(OriginalUrl(chapter))
Sum == updated_count + missing_count + skipped_count
Before == runStart.chapters
After == disk.chapters

\* C1: a complete run keeps the length and order of the chapters, every
\* field other than logoUrl and the rest of the document, and keeps the
\* logoUrl of a chapter whose logoUrl is empty or absent or whose expected
\* filename is not in the inventory.
C1_OnlyMatchedLogoUrlChanges ==
    pc = "done" =>
        /\ disk.kind = runStart.kind
        /\ disk.hasChapters = runStart.hasChapters
        /\ disk.rest = runStart.rest
        /\ Len(After) = Len(Before)
        /\ \A i \in 1..Len(Before) :
              /\ After[i].id = Before[i].id
              /\ After[i].title = Before[i].title
              /\ After[i].extra = Before[i].extra
              /\ (~HasLogoUrl(Before[i]) \/ ExpectedOf(Before[i]) \notin downloaded_logos)
                    => After[i].logoUrl = Before[i].logoUrl

C1_Witness ==
    /\ pc = "done" /\ Len(Before) = 2
    /\ After[1].logoUrl # Before[1].logoUrl
    /\ HasLogoUrl(Before[2]) /\ After[2].logoUrl = Before[2].logoUrl

\* C2: a second run in succession, with the same inventory, leaves the
\* document the first run wrote as it is.
C2_SecondRunChangesNothing ==
    (run >= 2 /\ pc = "done") => disk = runStart

\* C3: the result of sanitize_filename neither starts nor ends with a
\* hyphen, also when it was truncated.
C3_NoHyphenAtEitherEnd ==
    (sanDone /\ base # <<>>) => (base[1] # "-" /\ base[Len(base)] # "-")

\* C4: the result of sanitize_filename has at most 50 characters, all of
\* them in [a-z0-9] or hyphens, and no two hyphens in a row.
C4_SanitizedShape ==
    sanDone =>
        /\ Len(base) <= 50
        /\ \A i \in 1..Len(base) :
              base[i] \in Range(LowerLetters) \cup Digits \cup {"-"}
        /\ \A i \in 1..(Len(base) - 1) : ~(base[i] = "-" /\ base[i + 1] = "-")

C4_Witness ==
    /\ sanDone /\ Len(title) > 50 /\ Len(base) = 50
    /\ "B" \in Range(title) /\ " " \in Range(title)

\* C5: the three counters always sum to the number of chapters gone
\* through, to the number of chapters at the summary, and every chapter
\* adds one to exactly one of them: skipped iff its logoUrl is empty or
\* absent, updated iff its expected filename is in the inventory, missing
\* otherwise.
C5_CounterConsistency ==
    /\ [](Sum = idx)
    /\ [](pc = "done" => Sum = Len(config.chapters))
    /\ [][idx' = idx + 1 =>
            LET chapter == config.chapters[idx + 1]
                kind == IF ~HasLogoUrl(chapter) THEN "skipped"
                        ELSE IF ExpectedOf(chapter) \in downloaded_logos
                             THEN "updated" ELSE "missing"
            IN  /\ skipped_count' = skipped_count + (IF kind = "skipped" THEN 1 ELSE 0)
                /\ updated_count' = updated_count + (IF kind = "updated" THEN 1 ELSE 0)
                /\ missing_count' = missing_count + (IF kind = "missing" THEN 1 ELSE 0)
         ]_vars

C5_Witness ==
    /\ pc = "done" /\ Len(config.chapters) = 2
    /\ \/ skipped_count = 1 /\ updated_count = 1
       \/ skipped_count = 1 /\ missing_count = 1

\* C6: after a run, a chapter with a logoUrl whose expected filename is in
\* the inventory has logoUrl "assets/logos/" + sanitize(title) +
\* extension(original logoUrl) and was counted as updated; every logoUrl
\* is its original value or "assets/logos/" followed by a filename of the
\* inventory; "Chapter One: Intro!" with https://x.com/a.PNG and
\* chapter-one-intro.png in the inventory gives
\* assets/logos/chapter-one-intro.png.
C6_MatchedChapterGetsLocalPath ==
    pc = "done" =>
        LET matched == {i \in 1..Len(Before) :
                          HasLogoUrl(Before[i]) /\ ExpectedOf(Before[i]) \in downloaded_logos}
        IN  /\ \A i \in matched :
                  After[i].logoUrl = Str(<<"a","s","s","e","t","s","/","l","o","g","o","s","/">> \o ExpectedOf(Before[i]))
            /\ updated_count = Cardinality(matched)
            /\ \A i \in 1..Len(Before) :
                  \/ After[i].logoUrl = Before[i].logoUrl
                  \/ \E f \in downloaded_logos :
                        After[i].logoUrl = Str(<<"a","s","s","e","t","s","/","l","o","g","o","s","/">> \o f)
            /\ \A i \in 1..Len(Before) :
                  ( /\ Before[i].title = Str(<<"C","h","a","p","t","e","r"," ","O","n","e",":"," ","I","n","t","r","o","!">>)
                    /\ Before[i].logoUrl = Str(<<"h","t","t","p","s",":","/","/","x",".","c","o","m","/","a",".","P","N","G">>)
                    /\ <<"c","h","a","p","t","e","r","-","o","n","e","-","i","n","t","r","o",".","p","n","g">> \in downloaded_logos )
                  => After[i].logoUrl = Str(<<"a","s","s","e","t","s","/","l","o","g","o","s","/","c","h","a","p","t","e","r","-","o","n","e","-","i","n","t","r","o",".","p","n","g">>)

C6_Witness ==
    /\ pc = "done" /\ run = 1 /\ updated_count = 2
    /\ \E i \in 1..Len(Before) :
          /\ Before[i].logoUrl = Str(<<"h","t","t","p","s",":","/","/","x",".","c","o","m","/","a",".","P","N","G">>)
          /\ After[i].logoUrl = Str(<<"a","s","s","e","t","s","/","l","o","g","o","s","/","c","h","a","p","t","e","r","-","o","n","e","-","i","n","t","r","o",".","p","n","g">>)

SixExtensions == {<<".">> \o ExtensionTokens[t] : t \in 1..Len(ExtensionTokens)}

AsciiLower(c) ==
    IF \E i \in 1..26 : UpperLetters[i] = c
    THEN LowerLetters[CHOOSE i \in 1..26 : UpperLetters[i] = c]
    ELSE c

\* a dot at i, then the token in either case, then the end of the string
\* or a "?"
Qualifies(u, i, tok) ==
    /\ u[i] = "."
    /\ i + Len(tok) <= Len(u)
    /\ \A k \in 1..Len(tok) : AsciiLower(u[i + k]) = tok[k]
    /\ (i + Len(tok) = Len(u) \/ u[i + Len(tok) + 1] = "?")

QualifyingAt(u) ==
    {i \in 1..Len(u) : \E t \in 1..Len(ExtensionTokens) : Qualifies(u, i, ExtensionTokens[t])}

\* C7: get_extension_from_url returns one of the six extensions: ".png"
\* for an empty or absent URL and for one with no qualifying occurrence,
\* else the dot and the token of the leftmost qualifying occurrence.
C7_ExtensionResolved ==
    extDone =>
        /\ ext \in SixExtensions
        /\ (Falsy(url) \/ QualifyingAt(url.val) = {}) => ext = <<".", "p", "n", "g">>
        /\ (~Falsy(url) /\ QualifyingAt(url.val) # {}) =>
              LET i == CHOOSE p \in QualifyingAt(url.val) :
                          \A r \in QualifyingAt(url.val) : p <= r
              IN  \E t \in 1..Len(ExtensionTokens) :
                     /\ Qualifies(url.val, i, ExtensionTokens[t])
                     /\ ext = <<".">> \o ExtensionTokens[t]

\* C8: CONFIG_FILE is read once, before the inventory is built and before
\* any chapter is gone through; it is written at most once, after the last
\* chapter; a run that ends before the write step leaves the file as it
\* was.
C8_ReadOnceWriteOnceAtEnd ==
    /\ reads <= 1 /\ writes <= 1
    /\ pc \in {"inventory", "loop", "done"} => reads = 1
    /\ (idx > 0 \/ downloaded_logos # {}) => reads = 1
    /\ error \in {"FileNotFoundError", "JSONDecodeError"} =>
          (writes = 0 /\ config = NotLoaded /\ idx = 0)
    /\ writes = 1 =>
          /\ pc \in {"done", "aborted"}
          /\ config.hasChapters /\ idx = Len(config.chapters)
    /\ writes = 0 => disk = runStart
    /\ pc = "done" => writes = 1

C8_Witness ==
    /\ pc = "aborted" /\ error = "AttributeError" /\ idx = 1
    /\ config.chapters[1].logoUrl # runStart.chapters[1].logoUrl
    /\ disk = runStart

\* C9: without the logos directory the inventory is empty and building it
\* ends no run; updated stays 0, a run that reaches the end has written the
\* file, counted every chapter as missing or skipped and changed no
\* logoUrl.
C9_MissingLogosDirectory ==
    /\ [](~dirExists =>
            /\ downloaded_logos = {}
            /\ updated_count = 0
            /\ pc = "done" =>
                  /\ writes = 1
                  /\ missing_count + skipped_count = Len(Before)
                  /\ disk = runStart)
    /\ [][(~dirExists /\ pc = "inventory") => pc' = "loop"]_vars

C9_Witness ==
    /\ ~dirExists /\ pc = "done" /\ run = 1
    /\ missing_count = 1 /\ skipped_count = 1

\* C10: no name that begins with "." is in the inventory, no logoUrl is
\* rewritten to a path whose filename begins with ".", and a chapter with
\* a logoUrl whose title is empty, absent or sanitizes to the empty string
\* is counted as missing and keeps its logoUrl, whatever the directory
\* holds.
C10_HiddenEntriesNeverMatched ==
    /\ [](\A f \in downloaded_logos : f[1] # ".")
    /\ [][idx' = idx + 1 =>
            LET old == config.chapters[idx + 1]
                new == config'.chapters[idx + 1]
            IN  /\ new.logoUrl # old.logoUrl =>
                      new.logoUrl.val[Len(<<"a","s","s","e","t","s","/","l","o","g","o","s","/">>) + 1] # "."
                /\ ( /\ HasLogoUrl(old)
                     /\ sanitize_filename(GetOrEmpty(old.title).val) = <<>> )
                   => (new = old /\ missing_count' = missing_count + 1)
         ]_vars

C10_Witness ==
    /\ pc = "done" /\ run = 1 /\ missing_count = 2
    /\ <<".", "p", "n", "g">> \in dirEntries
    /\ Len(Before) = 2
    /\ Before[1].title = Absent /\ Before[1].logoUrl = Str(<<"x", ".", "p", "n", "g">>)
    /\ After[1] = Before[1]
    /\ Before[2].title = Str(<<"?", "?">>) /\ After[2] = Before[2]

====
